---- MODULE Spec2Model ----
(***************************************************************************)
(* Model of the PPM backend: the session field-collection state machine    *)
(* (StructuredOllamaChat / OllamaChatManager in                            *)
(* backend/app/services/ollama_service.py), the CollectedInfo field set    *)
(* (backend/app/models.py) and the vector index used as a semantic cache   *)
(* (backend/app/services/weaviate_service.py).                             *)
(*                                                                         *)
(* The language model, the embedding distance and the file system are      *)
(* external: their results are inputs of the actions, drawn from the small *)
(* sets below.  Confidence and distance are scaled by 100 (0.5 -> 50,      *)
(* 0.25 -> 25).  Python's None is the string None below; a value is        *)
(* "truthy" when it is neither None nor the empty string.                  *)
(***************************************************************************)
EXTENDS Integers, Sequences, FiniteSets, TLC

VARIABLES
    active,     \* OllamaChatManager.active_chats: the chat ids it holds
    info,       \* chat id -> StructuredOllamaChat.collected_info
    created,    \* chat id -> StructuredOllamaChat.created_at
    history,    \* chat id -> StructuredOllamaChat.chat_history
    index,      \* the Weaviate collection, in insertion (= timestamp) order
    files,      \* chat id -> collected_info_<chat_id>.json, or NoFile
    writes,     \* chat id -> number of times that file has been written
    seen,       \* chat ids that have been handed out or referenced
    now,        \* the clock: one tick per operation
    last,       \* the operation that produced this state, and its result
    turns       \* request id -> the send_message call it is running, and where

vars == <<active, info, created, history, index, files, writes, seen, now, last, turns>>

----------------------------------------------------------------------------
(* Bounds of the model *)

MaxOps == 3          \* operations in a behaviour of Spec, SpecFn, SpecRestart
MaxOpsLong == 5      \* operations in a behaviour of SpecCollect
MaxAppends == 24     \* appends in a behaviour of SpecHistory
MaxSteps == 9
MaxOpsScenario == 6
MaxOpsUpdate == 1        \* pipeline steps in a behaviour of SpecPipeline

(* Program constants *)

ConfidenceThreshold == 50   \* extraction.confidence > 0.5
HistoryLimit == 20          \* len(self.chat_history) > 20
DistanceThreshold == 25     \* near_text(distance=0.25)
TotalRequired == 4          \* "total_required": 4

----------------------------------------------------------------------------
(* Values *)

None == "<None>"
Truthy(v) == v # None /\ v # ""

ChatIds == {"chat-A", "chat-B"}

FieldOrder == <<"u1", "c1", "u2", "c2">>
FieldKeys == {"u1", "c1", "u2", "c2"}

\* what the user may type
UserTexts == {"Stanford", "Stanford University"}

TroubleReply == "I'm having trouble responding: error"

InvalidInputMarker ==
    "Invalid input by the user, ask for the next piece of information needed."

InitialMessage ==
    "Hi! I need to collect information about two universities and courses you're interested in. Let's start with the name of your first university."

NoFile == [exists |-> FALSE]

----------------------------------------------------------------------------
(* CollectedInfo (app/models.py) *)

CollectedInfo == [u1 |-> None, c1 |-> None, u2 |-> None, c2 |-> None]

is_complete(ci) ==
    /\ Truthy(ci.u1)
    /\ Truthy(ci.c1)
    /\ Truthy(ci.u2)
    /\ Truthy(ci.c2)

\* get_next_field with the second field looked at before the first
get_next_field_course_first(ci) ==
    IF ~Truthy(ci.c1) THEN "First university course"
    ELSE IF ~Truthy(ci.u1) THEN "First university name"
    ELSE IF ~Truthy(ci.u2) THEN "Second university name"
    ELSE IF ~Truthy(ci.c2) THEN "Second university course"
    ELSE None

get_next_field(ci) ==
    IF ~Truthy(ci.u1) THEN "First university name"
    ELSE IF ~Truthy(ci.c1) THEN "First university course"
    ELSE IF ~Truthy(ci.u2) THEN "Second university name"
    ELSE IF ~Truthy(ci.c2) THEN "Second university course"
    ELSE None

----------------------------------------------------------------------------
(* The Extractor (StructuredOllamaChat._extract_information) *)

InformationUpdate(u, c, f, conf) ==
    [new_university |-> u, new_course |-> c, field_to_update |-> f, confidence |-> conf]

NoInformation == InformationUpdate(None, None, None, 0)

\* the key the Extractor prompt asks the model to fill
next_field_key(ci) ==
    IF ~Truthy(ci.u1) THEN "u1"
    ELSE IF ~Truthy(ci.c1) THEN "c1"
    ELSE IF ~Truthy(ci.u2) THEN "u2"
    ELSE IF ~Truthy(ci.c2) THEN "c2"
    ELSE None

\* what the language model may return for the structured call.  The model
\* is free to return any InformationUpdate; these stand for the cases the
\* code tells apart: a payload that fits the field id (for each field), a
\* payload of the other kind, both payloads, no payload, no field id, a
\* second value for a field, and a result at the confidence threshold
ModelUpdates ==
    { InformationUpdate("Stanford", None, f, 90) : f \in {"u1", "u2", "c1"} }
    \cup { InformationUpdate(None, "Computer Science", f, 90) : f \in {"c1", "c2", "u1"} }
    \cup { InformationUpdate("MIT", None, f, 90) : f \in {"u1", "u2"} }
    \cup { InformationUpdate("Stanford", "Computer Science", "c2", 90),
           InformationUpdate(None, None, "u1", 90),
           InformationUpdate("Stanford", None, None, 90),
           InformationUpdate("Stanford", None, "u1", 50) }

ModelFailure == [failed |-> TRUE]
ModelResults == { [failed |-> FALSE, update |-> x] : x \in ModelUpdates } \cup {ModelFailure}

\* _extract_information: the result, and whether the model was called
\* the field the prompt asks the model for: none once the fields are complete
extraction_target(ci) ==
    IF is_complete(ci) THEN None ELSE next_field_key(ci)

\* _extract_information whose failed call yields a confident guess for the
\* field asked for instead of an empty update
extract_information_guess_on_failure(ci, m) ==
    IF is_complete(ci) THEN [update |-> NoInformation, called |-> FALSE]
    ELSE IF ~Truthy(extraction_target(ci)) THEN [update |-> NoInformation, called |-> FALSE]
    ELSE IF m.failed
    THEN [update |-> InformationUpdate("Stanford", "Computer Science",
                                       extraction_target(ci), 90),
          called |-> TRUE]
    ELSE [update |-> m.update, called |-> TRUE]

extract_information(ci, m) ==
    IF is_complete(ci) THEN [update |-> NoInformation, called |-> FALSE]
    ELSE IF ~Truthy(extraction_target(ci)) THEN [update |-> NoInformation, called |-> FALSE]
    ELSE IF m.failed THEN [update |-> NoInformation, called |-> TRUE]
    ELSE [update |-> m.update, called |-> TRUE]

\* an update that, with a university, also writes the course payload into
\* the course field of the same pair
apply_extraction_pair(ci, e) ==
    IF e.confidence > ConfidenceThreshold /\ Truthy(e.field_to_update)
    THEN IF Truthy(e.new_university) /\ e.field_to_update \in {"u1", "u2"}
         THEN LET pair == IF e.field_to_update = "u1" THEN "c1" ELSE "c2"
              IN IF Truthy(e.new_course)
                 THEN [ci EXCEPT ![e.field_to_update] = e.new_university,
                                 ![pair] = e.new_course]
                 ELSE [ci EXCEPT ![e.field_to_update] = e.new_university]
         ELSE IF Truthy(e.new_course) /\ e.field_to_update \in {"c1", "c2"}
         THEN [ci EXCEPT ![e.field_to_update] = e.new_course]
         ELSE ci
    ELSE ci

\* an update that prefers the course payload whatever the field
apply_extraction_course_first(ci, e) ==
    IF e.confidence > ConfidenceThreshold /\ Truthy(e.field_to_update)
    THEN IF Truthy(e.new_course)
         THEN [ci EXCEPT ![e.field_to_update] = e.new_course]
         ELSE IF Truthy(e.new_university)
         THEN [ci EXCEPT ![e.field_to_update] = e.new_university]
         ELSE ci
    ELSE ci

\* send_message, "Update collected info if extraction is confident"
apply_extraction(ci, e) ==
    IF e.confidence > ConfidenceThreshold /\ Truthy(e.field_to_update)
    THEN IF Truthy(e.new_university) /\ e.field_to_update \in {"u1", "u2"}
         THEN [ci EXCEPT ![e.field_to_update] = e.new_university]
         ELSE IF Truthy(e.new_course) /\ e.field_to_update \in {"c1", "c2"}
         THEN [ci EXCEPT ![e.field_to_update] = e.new_course]
         ELSE ci
    ELSE ci

\* send_message that never replaces the user message
effective_message_keeps_text(ci, e, user_message) == user_message

\* send_message, the replacement of the user message by the marker
effective_message(ci, e, user_message) ==
    IF e.new_university = None /\ e.new_course = None /\ ~is_complete(ci)
    THEN InvalidInputMarker
    ELSE user_message

\* extraction_step without the completeness checks: the model is called and
\* its update applied on every message
extraction_step_unguarded(ci, m, user_message) ==
    LET e == IF m.failed THEN NoInformation ELSE m.update
    IN [extraction |-> e,
        extractor_calls |-> 1,
        user_message |-> effective_message(ci, e, user_message),
        collected_info |-> apply_extraction(ci, e)]

\* send_message, "Extract information if not complete": the extraction, the
\* message used from here on and the fields after the update.  m is what
\* the language model returns if it is called.
\* extraction_step whose skipped extraction also skips the rest of the turn's
\* input: the message handed on is the marker
extraction_step_marker_when_complete(ci, m, user_message) ==
    IF ~is_complete(ci)
    THEN LET ex == extract_information(ci, m)
         IN [extraction |-> ex.update, extractor_calls |-> IF ex.called THEN 1 ELSE 0,
             user_message |-> effective_message(ci, ex.update, user_message),
             collected_info |-> apply_extraction(ci, ex.update)]
    ELSE [extraction |-> NoInformation, extractor_calls |-> 0,
          user_message |-> InvalidInputMarker, collected_info |-> ci]

\* extraction_step that hands the extraction on without updating the fields
extraction_step_deferred(ci, m, user_message) ==
    IF ~is_complete(ci)
    THEN LET ex == extract_information(ci, m)
         IN [extraction |-> ex.update, extractor_calls |-> IF ex.called THEN 1 ELSE 0,
             user_message |-> effective_message(ci, ex.update, user_message),
             collected_info |-> ci]
    ELSE [extraction |-> NoInformation, extractor_calls |-> 0,
          user_message |-> user_message, collected_info |-> ci]

extraction_step(ci, m, user_message) ==
    IF ~is_complete(ci)
    THEN LET ex == extract_information(ci, m)
         IN [extraction |-> ex.update,
             extractor_calls |-> IF ex.called THEN 1 ELSE 0,
             user_message |-> effective_message(ci, ex.update, user_message),
             collected_info |-> apply_extraction(ci, ex.update)]
    ELSE [extraction |-> NoInformation,
          extractor_calls |-> 0,
          user_message |-> user_message,
          collected_info |-> ci]

----------------------------------------------------------------------------
(* The transcript (StructuredOllamaChat._add_to_history) *)

\* _add_to_history that keeps the oldest entries on overflow
add_to_history_keep_oldest(h, role, content) ==
    LET h1 == Append(h, [role |-> role, content |-> content])
    IN IF Len(h1) > HistoryLimit
       THEN SubSeq(h1, 1, HistoryLimit)
       ELSE h1

add_to_history(h, role, content) ==
    LET h1 == Append(h, [role |-> role, content |-> content])
    IN IF Len(h1) > HistoryLimit
       THEN SubSeq(h1, Len(h1) - HistoryLimit + 1, Len(h1))
       ELSE h1

----------------------------------------------------------------------------
(* The vector index (ConversationVectorDB in app/services/weaviate_service). *)
(* The chat service calls its insert add_conversation and its lookup       *)
(* search_similar, and names the user text of a record user_input; the     *)
(* operators keep the names of the call sites.                             *)

\* embedding distance between two texts, times 100; the vectorizer is
\* deterministic, so equal texts are at distance 0
Distance(a, b) ==
    IF a = b THEN 0
    ELSE IF {a, b} = {"Stanford", "Stanford University"} THEN 10
    ELSE 80

\* Matches without the chat_id filter
Matches_any_chat(idx, chat_id, query) ==
    { i \in 1..Len(idx) : Distance(idx[i].user_input, query) <= DistanceThreshold }

\* positions of the records near_text may return: same chat_id, within the
\* distance threshold
Matches(idx, chat_id, query) ==
    { i \in 1..Len(idx) :
        /\ idx[i].chat_id = chat_id
        /\ Distance(idx[i].user_input, query) <= DistanceThreshold }

\* search_similar that returns the oldest matches instead of the nearest
search_similar_oldest(idx, chat_id, query, limit) ==
    LET M == Matches(idx, chat_id, query)
        n == IF Cardinality(M) < limit THEN Cardinality(M) ELSE limit
    IN { { i \in M : Cardinality({ j \in M : j < i }) < n } }

\* near_text(limit=n): the sets of positions it may return, the n nearest
\* matches (all of them when there are fewer); no match gives {{}}
search_similar(idx, chat_id, query, limit) ==
    LET M == Matches(idx, chat_id, query)
        n == IF Cardinality(M) < limit THEN Cardinality(M) ELSE limit
    IN { R \in SUBSET M :
           /\ Cardinality(R) = n
           /\ \A i \in R : \A j \in M \ R :
                  Distance(idx[i].user_input, query) <= Distance(idx[j].user_input, query) }

\* an insert that skips an exchange the collection already holds
add_conversation_skip_duplicates(idx, chat_id, user_input, assistant_response) ==
    LET rec == [chat_id |-> chat_id, user_input |-> user_input,
                assistant_response |-> assistant_response]
    IN IF \E i \in 1..Len(idx) : idx[i] = rec THEN idx ELSE Append(idx, rec)

\* add_conversation_pair: the collection after the insert
add_conversation(idx, chat_id, user_input, assistant_response) ==
    Append(idx, [chat_id |-> chat_id, user_input |-> user_input,
                 assistant_response |-> assistant_response])

\* get_all_conversations: the exchanges of a chat, oldest first
get_chat_history(idx, chat_id) ==
    SelectSeq(idx, LAMBDA r : r.chat_id = chat_id)

----------------------------------------------------------------------------
(* Persistence (StructuredOllamaChat.save_info / load_chat_session) *)

\* a record that takes the time of writing as the creation time
save_data_created_now(chat_id, created_at, t, ci) ==
    [exists |-> TRUE, chat_id |-> chat_id, created_at |-> t,
     timestamp |-> t, collected_info |-> ci]

save_data(chat_id, created_at, t, ci) ==
    [exists |-> TRUE, chat_id |-> chat_id, created_at |-> created_at,
     timestamp |-> t, collected_info |-> ci]

\* the file after save_info; a failed write is caught and leaves it as it was
save_info(f, chat_id, created_at, t, ci, ok) ==
    IF ok THEN save_data(chat_id, created_at, t, ci) ELSE f

\* save_info that lets the exception of a failed write out
save_info_raises_unhandled(ok) == ~ok

\* whether save_info raises to its caller: its whole body is inside a try
\* whose except clause prints the error
save_info_raises(ok) == FALSE

\* load_chat_session that does not read the file
load_chat_session_fresh(f, t) ==
    [collected_info |-> CollectedInfo, created_at |-> t, chat_history |-> <<>>]

\* load_chat_session that stamps the chat with the time of loading even when
\* the file holds a creation time
load_chat_session_new_created(f, t) ==
    IF f.exists
    THEN [collected_info |-> f.collected_info, created_at |-> t,
          chat_history |-> <<>>]
    ELSE [collected_info |-> CollectedInfo, created_at |-> t, chat_history |-> <<>>]

\* load_chat_session: the chat object for an id that is not active
load_chat_session(f, t) ==
    IF f.exists
    THEN [collected_info |-> f.collected_info, created_at |-> f.created_at,
          chat_history |-> <<>>]
    ELSE [collected_info |-> CollectedInfo, created_at |-> t, chat_history |-> <<>>]

\* initialize_chat that does not put the greeting in the transcript
initialize_chat_silent(t) ==
    [collected_info |-> CollectedInfo, created_at |-> t, chat_history |-> <<>>]

\* initialize_chat: the chat object of a new session
initialize_chat(t) ==
    [collected_info |-> CollectedInfo, created_at |-> t,
     chat_history |-> add_to_history(<<>>, "assistant", InitialMessage)]

\* get_or_create_chat that initialises a new chat for an id that is not
\* active, without looking for its file
get_or_create_chat_initialize(chat_id) ==
    IF chat_id \in active
    THEN [collected_info |-> info[chat_id], created_at |-> created[chat_id],
          chat_history |-> history[chat_id]]
    ELSE initialize_chat(now)

\* get_or_create_chat: the chat object the manager works on
get_or_create_chat(chat_id) ==
    IF chat_id \in active
    THEN [collected_info |-> info[chat_id], created_at |-> created[chat_id],
          chat_history |-> history[chat_id]]
    ELSE load_chat_session(files[chat_id], now)

----------------------------------------------------------------------------
(* The Responder (StructuredOllamaChat._get_response_message) *)

\* _get_response_message without the except branch: a failed call gives no
\* reply
get_response_message_unhandled(r) ==
    r.content

get_response_message(r) ==
    IF r.failed THEN TroubleReply ELSE r.content

----------------------------------------------------------------------------
(* Initial state: a manager with no chats, an empty collection, no files *)

NoOp == [op |-> "none", chat_id |-> None]

\* the requests the server may be handling, none of them started
RequestIds == {"req-1", "req-2"}
NoTurns == [r \in RequestIds |-> [pc |-> "idle"]]

Init ==
    /\ active = {}
    /\ info = [c \in ChatIds |-> CollectedInfo]
    /\ created = [c \in ChatIds |-> 0]
    /\ history = [c \in ChatIds |-> <<>>]
    /\ index = <<>>
    /\ files = [c \in ChatIds |-> NoFile]
    /\ writes = [c \in ChatIds |-> 0]
    /\ seen = {}
    /\ now = 1
    /\ last = NoOp
    /\ turns = NoTurns

\* the part every operation shares: the clock advances, the id is referenced
Step(chat_id) ==
    /\ now' = now + 1
    /\ UNCHANGED turns
    /\ seen' = seen \cup {chat_id}

----------------------------------------------------------------------------
(* OllamaChatManager.create_chat_session *)

CreateSession(chat_id) ==
    /\ chat_id \notin seen          \* uuid4: an id nobody has used
    /\ LET chat == initialize_chat(now)
       IN /\ active' = active \cup {chat_id}
          /\ info' = [info EXCEPT ![chat_id] = chat.collected_info]
          /\ created' = [created EXCEPT ![chat_id] = chat.created_at]
          /\ history' = [history EXCEPT ![chat_id] = chat.chat_history]
          /\ last' = [op |-> "create_chat_session", chat_id |-> chat_id,
                      created_at |-> chat.created_at, message |-> InitialMessage]
    /\ Step(chat_id)
    /\ UNCHANGED <<index, files, writes>>

----------------------------------------------------------------------------
(* OllamaChatManager.send_message_to_chat -> StructuredOllamaChat.send_message *)

\* the dict send_message returns
send_message_result(response, ci, is_cached) ==
    [response |-> response, collected_info |-> ci,
     is_complete |-> is_complete(ci), is_cached |-> is_cached]

\* the fields MessageResponse declares, and those without a default
MessageResponseFields == {"response", "chat_id", "is_cached", "collected_info", "is_complete"}
MessageResponseRequired == MessageResponseFields \ {"is_cached"}

HTTP_200_OK == 200
HTTP_500_INTERNAL_SERVER_ERROR == 500

\* routers/chat.py send_message, given the dict the manager returned: the
\* dict is unpacked into the two names response and is_cached, which raises
\* unless it has exactly two keys; MessageResponse is then built from
\* response, chat_id and is_cached, which raises while a required field is
\* missing; every exception becomes a 500
post_message(chat_id, result) ==
    LET passed == {"response", "chat_id", "is_cached"}
    IN IF Cardinality(DOMAIN result) # 2
       THEN [status |-> HTTP_500_INTERNAL_SERVER_ERROR,
             detail |-> "Failed to send message: too many values to unpack (expected 2)"]
       ELSE IF ~(MessageResponseRequired \subseteq passed)
       THEN [status |-> HTTP_500_INTERNAL_SERVER_ERROR,
             detail |-> "Failed to send message: validation error for MessageResponse"]
       ELSE [status |-> HTTP_200_OK, detail |-> ""]

SendMessage(chat_id, user_message, MR, SearchOk, RR, AddOk, SaveOk) ==
    LET chat == get_or_create_chat(chat_id)
        ci0 == chat.collected_info
        h1 == add_to_history(chat.chat_history, "user", user_message)
    IN \E m \in MR :
       LET st == extraction_step(ci0, m, user_message)
           msg == st.user_message
           ci1 == st.collected_info
           found == search_similar(index, chat_id, msg, 1)
       IN \* a failed search is told from an empty result only if there is a match
          \E sok \in (IF found = {{}} THEN {TRUE} ELSE SearchOk) :
          \E similar \in (IF sok THEN found ELSE {{}}) :
          \E r \in (IF similar = {} THEN RR ELSE {CHOOSE x \in RR : TRUE}) :
          \E aok \in AddOk :
          \E fok \in (IF is_complete(ci1) THEN SaveOk ELSE {TRUE}) :
          LET is_cached == similar # {}
              response == IF is_cached
                          THEN index[CHOOSE i \in similar : TRUE].assistant_response
                          ELSE get_response_message(r)
              h2 == add_to_history(h1, "assistant", response)
              saving == is_complete(ci1)
          IN /\ active' = active \cup {chat_id}
             /\ info' = [info EXCEPT ![chat_id] = ci1]
             /\ created' = [created EXCEPT ![chat_id] = chat.created_at]
             /\ history' = [history EXCEPT ![chat_id] = h2]
             /\ index' = IF aok THEN add_conversation(index, chat_id, msg, response)
                         ELSE index
             /\ files' = IF saving
                         THEN [files EXCEPT ![chat_id] =
                                 save_info(@, chat_id, chat.created_at, now, ci1, fok)]
                         ELSE files
             /\ writes' = IF saving /\ fok
                          THEN [writes EXCEPT ![chat_id] = @ + 1]
                          ELSE writes
             /\ last' = [op |-> "send_message", chat_id |-> chat_id,
                         user_message |-> user_message,
                         before |-> ci0,
                         extraction |-> st.extraction,
                         extractor_calls |-> st.extractor_calls,
                         extractor_failed |-> st.extractor_calls = 1 /\ m.failed,
                         query |-> msg,
                         search_ok |-> sok,
                         similar |-> similar,
                         responder_calls |-> IF is_cached THEN 0 ELSE 1,
                         responder_failed |-> ~is_cached /\ r.failed,
                         stored |-> aok,
                         save_calls |-> IF saving THEN 1 ELSE 0,
                         save_ok |-> fok,
                         raised |-> saving /\ save_info_raises(fok),
                         response |-> response,
                         collected_info |-> ci1,
                         is_complete |-> is_complete(ci1),
                         is_cached |-> is_cached,
                         http |-> post_message(chat_id,
                                     send_message_result(response, ci1, is_cached))]
             /\ Step(chat_id)

----------------------------------------------------------------------------
(* OllamaChatManager.get_collected_info / get_completion_status *)

\* get_completion_status that counts every field that is not None
get_completion_status_counts_not_none(ci) ==
    [is_complete |-> is_complete(ci),
     collected_count |-> Cardinality({k \in FieldKeys : ci[k] # None}),
     total_required |-> TotalRequired,
     next_field |-> get_next_field(ci)]

get_completion_status(ci) ==
    [is_complete |-> is_complete(ci),
     collected_count |-> Cardinality({k \in FieldKeys : Truthy(ci[k])}),
     total_required |-> TotalRequired,
     next_field |-> get_next_field(ci)]

\* the session is materialised by get_or_create_chat and stays active
Materialise(chat_id) ==
    LET chat == get_or_create_chat(chat_id)
    IN /\ active' = active \cup {chat_id}
       /\ info' = [info EXCEPT ![chat_id] = chat.collected_info]
       /\ created' = [created EXCEPT ![chat_id] = chat.created_at]
       /\ history' = [history EXCEPT ![chat_id] = chat.chat_history]

GetCollectedInfo(chat_id) ==
    /\ Materialise(chat_id)
    /\ last' = [op |-> "get_collected_info", chat_id |-> chat_id,
                collected_info |-> get_or_create_chat(chat_id).collected_info]
    /\ Step(chat_id)
    /\ UNCHANGED <<index, files, writes>>

GetCompletionStatus(chat_id) ==
    /\ Materialise(chat_id)
    /\ last' = [op |-> "get_completion_status", chat_id |-> chat_id,
                status |-> get_completion_status(get_or_create_chat(chat_id).collected_info)]
    /\ Step(chat_id)
    /\ UNCHANGED <<index, files, writes>>

\* search_similar_conversations(chat_id, query, limit)
SearchSimilar(chat_id, query, limit, SearchOk) ==
    /\ Materialise(chat_id)
    /\ \E sok \in (IF search_similar(index, chat_id, query, limit) = {{}}
                   THEN {TRUE} ELSE SearchOk) :
       \E similar \in (IF sok THEN search_similar(index, chat_id, query, limit) ELSE {{}}) :
          last' = [op |-> "search_similar_conversations", chat_id |-> chat_id,
                   query |-> query, similar |-> similar]
    /\ Step(chat_id)
    /\ UNCHANGED <<index, files, writes>>

----------------------------------------------------------------------------
(* OllamaChatManager.get_chat_history: the exchanges of the chat as the     *)
(* index holds them; a failed fetch gives the empty list                    *)

GetChatHistory(chat_id, FetchOk) ==
    /\ Materialise(chat_id)
    /\ \E ok \in (IF get_chat_history(index, chat_id) = <<>> THEN {TRUE} ELSE FetchOk) :
          last' = [op |-> "get_chat_history", chat_id |-> chat_id,
                   conversations |-> IF ok THEN get_chat_history(index, chat_id)
                                     ELSE <<>>]
    /\ Step(chat_id)
    /\ UNCHANGED <<index, files, writes>>

----------------------------------------------------------------------------
(* OllamaChatManager.close_chat / close_all_chats *)

\* close_chat that saves the fields of the chat whether complete or not
CloseSession_saves_always(chat_id, SaveOk) ==
    /\ IF chat_id \in active
       THEN \E fok \in SaveOk :
            LET saving == TRUE
            IN /\ files' = IF saving
                           THEN [files EXCEPT ![chat_id] =
                                   save_info(@, chat_id, created[chat_id], now,
                                             info[chat_id], fok)]
                           ELSE files
               /\ writes' = IF saving /\ fok
                            THEN [writes EXCEPT ![chat_id] = @ + 1]
                            ELSE writes
               /\ last' = [op |-> "close_chat", chat_id |-> chat_id,
                           was_active |-> TRUE,
                           before |-> info[chat_id],
                           save_calls |-> IF saving THEN 1 ELSE 0]
       ELSE /\ UNCHANGED <<files, writes>>
            /\ last' = [op |-> "close_chat", chat_id |-> chat_id,
                        was_active |-> FALSE,
                        before |-> CollectedInfo,
                        save_calls |-> 0]
    /\ active' = active \ {chat_id}
    /\ info' = [info EXCEPT ![chat_id] = CollectedInfo]
    /\ created' = [created EXCEPT ![chat_id] = 0]
    /\ history' = [history EXCEPT ![chat_id] = <<>>]
    /\ now' = now + 1
    /\ UNCHANGED <<index, seen, turns>>


\* removal that empties the whole map
remove_chat_clears_map(chat_id) ==
    /\ active' = {}
    /\ info' = [c \in ChatIds |-> CollectedInfo]
    /\ created' = [c \in ChatIds |-> 0]
    /\ history' = [c \in ChatIds |-> <<>>]

\* chat.close() and del self.active_chats[chat_id]
remove_chat(chat_id) ==
    /\ active' = active \ {chat_id}
    /\ info' = [info EXCEPT ![chat_id] = CollectedInfo]
    /\ created' = [created EXCEPT ![chat_id] = 0]
    /\ history' = [history EXCEPT ![chat_id] = <<>>]

CloseSession(chat_id, SaveOk) ==
    /\ IF chat_id \in active
       THEN \E fok \in (IF is_complete(info[chat_id]) THEN SaveOk ELSE {TRUE}) :
            LET saving == is_complete(info[chat_id])
                raised == saving /\ save_info_raises(fok)
            IN /\ files' = IF saving
                           THEN [files EXCEPT ![chat_id] =
                                   save_info(@, chat_id, created[chat_id], now,
                                             info[chat_id], fok)]
                           ELSE files
               /\ writes' = IF saving /\ fok
                            THEN [writes EXCEPT ![chat_id] = @ + 1]
                            ELSE writes
               /\ last' = [op |-> "close_chat", chat_id |-> chat_id,
                           was_active |-> TRUE,
                           before |-> info[chat_id],
                           save_calls |-> IF saving THEN 1 ELSE 0,
                           save_ok |-> fok,
                           raised |-> raised]
               /\ IF raised
                  THEN UNCHANGED <<active, info, created, history>>
                  ELSE remove_chat(chat_id)
       ELSE /\ UNCHANGED <<files, writes>>
            /\ last' = [op |-> "close_chat", chat_id |-> chat_id,
                        was_active |-> FALSE,
                        before |-> CollectedInfo,
                        save_calls |-> 0,
                        save_ok |-> TRUE,
                        raised |-> FALSE]
            /\ UNCHANGED <<active, info, created, history>>
    /\ now' = now + 1
    /\ UNCHANGED <<index, seen, turns>>

\* close_all_chats that does not clear the map
CloseAll_keeps_map(SaveOk) ==
    /\ \E Failing \in SUBSET {c \in active : is_complete(info[c]) /\ FALSE \in SaveOk} :
       LET saving(c) == c \in active /\ is_complete(info[c])
       IN /\ files' = [c \in ChatIds |->
                        IF saving(c)
                        THEN save_info(files[c], c, created[c], now, info[c],
                                       c \notin Failing)
                        ELSE files[c]]
          /\ writes' = [c \in ChatIds |->
                         IF saving(c) /\ c \notin Failing
                         THEN writes[c] + 1 ELSE writes[c]]
          /\ last' = [op |-> "close_all_chats", chat_id |-> None,
                      closed |-> active,
                      save_calls |-> Cardinality({c \in ChatIds : saving(c)})]
    /\ now' = now + 1
    /\ UNCHANGED <<active, info, created, history, index, seen, turns>>

\* close_all_chats that saves every active chat, complete or not
CloseAll_saves_every_chat(SaveOk) ==
    /\ \E Failing \in SUBSET {c \in active : is_complete(info[c]) /\ FALSE \in SaveOk} :
       LET saving(c) == c \in active
           raised == \E c \in Failing : save_info_raises(FALSE)
       IN /\ files' = [c \in ChatIds |->
                        IF saving(c)
                        THEN save_info(files[c], c, created[c], now, info[c],
                                       c \notin Failing)
                        ELSE files[c]]
          /\ writes' = [c \in ChatIds |->
                         IF saving(c) /\ c \notin Failing
                         THEN writes[c] + 1 ELSE writes[c]]
          /\ last' = [op |-> "close_all_chats", chat_id |-> None,
                      closed |-> active,
                      save_calls |-> Cardinality({c \in ChatIds : saving(c)}),
                      failed |-> Failing,
                      raised |-> raised]
          /\ IF raised
             THEN UNCHANGED <<active, info, created, history>>
             ELSE /\ active' = {}
                  /\ info' = [c \in ChatIds |-> CollectedInfo]
                  /\ created' = [c \in ChatIds |-> 0]
                  /\ history' = [c \in ChatIds |-> <<>>]
    /\ now' = now + 1
    /\ UNCHANGED <<index, seen, turns>>


\* every active chat is saved if complete, then the map is cleared; Failing
\* is the set of chats whose write fails
CloseAll(SaveOk) ==
    /\ \E Failing \in SUBSET {c \in active : is_complete(info[c]) /\ FALSE \in SaveOk} :
       LET saving(c) == c \in active /\ is_complete(info[c])
           raised == \E c \in Failing : save_info_raises(FALSE)
       IN /\ files' = [c \in ChatIds |->
                        IF saving(c)
                        THEN save_info(files[c], c, created[c], now, info[c],
                                       c \notin Failing)
                        ELSE files[c]]
          /\ writes' = [c \in ChatIds |->
                         IF saving(c) /\ c \notin Failing
                         THEN writes[c] + 1 ELSE writes[c]]
          /\ last' = [op |-> "close_all_chats", chat_id |-> None,
                      closed |-> active,
                      save_calls |-> Cardinality({c \in ChatIds : saving(c)}),
                      failed |-> Failing,
                      raised |-> raised]
          /\ IF raised
             THEN UNCHANGED <<active, info, created, history>>
             ELSE /\ active' = {}
                  /\ info' = [c \in ChatIds |-> CollectedInfo]
                  /\ created' = [c \in ChatIds |-> 0]
                  /\ history' = [c \in ChatIds |-> <<>>]
    /\ now' = now + 1
    /\ UNCHANGED <<index, seen, turns>>

---------------------------------------------------------------------------------------------------------------------------------------------------
(* Spec: two chats, every outcome of the vector index, the Responder and   *)
(* the file system, and two outcomes of the Extractor (the call fails; a   *)
(* confident update of u1), for MaxOps operations.                         *)

CacheModelResults ==
    { ModelFailure,
      [failed |-> FALSE, update |-> InformationUpdate("Stanford", None, "u1", 90)] }

CacheResponderResults ==
    { [failed |-> FALSE, content |-> "reply-1"], [failed |-> TRUE, content |-> None] }

Next ==
    \/ \E c \in ChatIds : now <= MaxOps /\ CreateSession(c)
    \/ \E c \in ChatIds, t \in UserTexts :
          /\ now <= MaxOps
          /\ SendMessage(c, t, CacheModelResults, BOOLEAN, CacheResponderResults,
                         BOOLEAN, BOOLEAN)
    \/ \E c \in ChatIds : now <= MaxOps /\ GetCollectedInfo(c)
    \/ \E c \in ChatIds : now <= MaxOps /\ GetCompletionStatus(c)
    \/ \E c \in ChatIds, t \in UserTexts, n \in {1, 2} :
          now <= MaxOps /\ SearchSimilar(c, t, n, BOOLEAN)
    \/ \E c \in ChatIds : now <= MaxOps /\ CloseSession(c, BOOLEAN)
    \/ now <= MaxOps /\ CloseAll(BOOLEAN)

Spec == Init /\ [][Next]_vars

----------------------------------------------------------------------------
(* SpecCollect: one chat taken through the whole collection, with every    *)
(* outcome of the Extractor, of the lookup and of the file system, a       *)
(* working insert and Responder, for MaxOpsLong operations.                *)

OneChat == {"chat-A"}
OneText == {"Stanford"}
OneReply == { [failed |-> FALSE, content |-> "reply-1"] }

NextCollect ==
    \/ \E c \in OneChat : now <= MaxOpsLong /\ CreateSession(c)
    \/ \E c \in OneChat, t \in OneText :
          /\ now <= MaxOpsLong
          /\ SendMessage(c, t, ModelResults, BOOLEAN, OneReply, {TRUE}, BOOLEAN)
    \/ \E c \in OneChat : now <= MaxOpsLong /\ GetCompletionStatus(c)
    \/ \E c \in OneChat : now <= MaxOpsLong /\ CloseSession(c, BOOLEAN)
    \/ now <= MaxOpsLong /\ CloseAll(BOOLEAN)

SpecCollect == Init /\ [][NextCollect]_vars

----------------------------------------------------------------------------
(* The next-field functions on every assignment of the four fields: chat-A *)
(* is active and its fields are drawn from none, the empty string and a    *)
(* value; the operations that compute the next field are applied to them.  *)

FieldValues == {None, "", "Stanford"}

InitFn ==
    /\ active = OneChat
    /\ \E ci \in [FieldKeys -> FieldValues] :
          info = [c \in ChatIds |-> IF c \in OneChat
                                    THEN [u1 |-> ci["u1"], c1 |-> ci["c1"],
                                          u2 |-> ci["u2"], c2 |-> ci["c2"]]
                                    ELSE CollectedInfo]
    /\ created = [c \in ChatIds |-> 0]
    /\ history = [c \in ChatIds |-> <<>>]
    /\ index = <<>>
    /\ files = [c \in ChatIds |-> NoFile]
    /\ writes = [c \in ChatIds |-> 0]
    /\ seen = OneChat
    /\ now = 1
    /\ last = NoOp
    /\ turns = NoTurns

\* CollectedInfo.get_next_field and CollectedInfo.is_complete of a chat
GetNextField(chat_id) ==
    /\ chat_id \in active
    /\ last' = [op |-> "get_next_field", chat_id |-> chat_id,
                next_field |-> get_next_field(info[chat_id]),
                is_complete |-> is_complete(info[chat_id])]
    /\ Step(chat_id)
    /\ UNCHANGED <<active, info, created, history, index, files, writes>>

\* StructuredOllamaChat._extract_information of a chat
ExtractInformation(chat_id, MR) ==
    /\ chat_id \in active
    /\ \E m \in MR :
         LET ex == extract_information(info[chat_id], m)
         IN last' = [op |-> "_extract_information", chat_id |-> chat_id,
                     next_field_key |-> extraction_target(info[chat_id]),
                     extraction |-> ex.update,
                     extractor_calls |-> IF ex.called THEN 1 ELSE 0]
    /\ Step(chat_id)
    /\ UNCHANGED <<active, info, created, history, index, files, writes>>

NextFn ==
    \/ \E c \in OneChat : now <= MaxOps /\ GetNextField(c)
    \/ \E c \in OneChat : now <= MaxOps /\ ExtractInformation(c, CacheModelResults)
    \/ \E c \in OneChat : now <= MaxOps /\ GetCompletionStatus(c)

SpecFn == InitFn /\ [][NextFn]_vars

----------------------------------------------------------------------------
(* SpecRestart: a manager started where an earlier run may have left the   *)
(* completion record of a chat on disk; every operation of the manager,    *)
(* for MaxOps operations.                                                  *)

\* the fields of a chat an earlier run completed
SavedInfo ==
    [u1 |-> "Stanford", c1 |-> "Computer Science", u2 |-> "MIT", c2 |-> "Computer Science"]

InitRestart ==
    /\ active = {}
    /\ info = [c \in ChatIds |-> CollectedInfo]
    /\ created = [c \in ChatIds |-> 0]
    /\ history = [c \in ChatIds |-> <<>>]
    /\ index = <<>>
    /\ files \in { [c \in ChatIds |-> IF c \in S THEN save_data(c, 0, 0, SavedInfo)
                                      ELSE NoFile] : S \in SUBSET ChatIds }
    /\ writes = [c \in ChatIds |-> 0]
    /\ seen = { c \in ChatIds : files[c].exists }
    /\ now = 1
    /\ last = NoOp
    /\ turns = NoTurns

NextRestart ==
    \/ \E c \in ChatIds : now <= MaxOps /\ CreateSession(c)
    \/ \E c \in ChatIds, t \in OneText :
          /\ now <= MaxOps
          /\ SendMessage(c, t, CacheModelResults, BOOLEAN, OneReply, BOOLEAN, BOOLEAN)
    \/ \E c \in ChatIds : now <= MaxOps /\ GetCollectedInfo(c)
    \/ \E c \in ChatIds : now <= MaxOps /\ GetCompletionStatus(c)
    \/ \E c \in ChatIds : now <= MaxOps /\ GetChatHistory(c, BOOLEAN)
    \/ \E c \in ChatIds, t \in OneText :
          now <= MaxOps /\ SearchSimilar(c, t, 1, BOOLEAN)
    \/ \E c \in ChatIds : now <= MaxOps /\ CloseSession(c, BOOLEAN)
    \/ now <= MaxOps /\ CloseAll(BOOLEAN)

SpecRestart == InitRestart /\ [][NextRestart]_vars

----------------------------------------------------------------------------
(* SpecScenario: one chat taken from a fresh session to completion, close  *)
(* and reload, with an Extractor that answers every message with a         *)
(* confident update of the field asked for, carrying the message as the    *)
(* payload of that field's type, with or without a payload of the other    *)
(* type; for MaxOpsScenario operations.                                    *)

ScenarioTexts == {"Stanford", "Computer Science"}

\* what the model returns for the prompt built from the fields ci and the
\* message text
WellBehavedExtractor(ci, text) ==
    LET f == next_field_key(ci)
    IN IF f = None THEN {ModelFailure}
       ELSE IF f \in {"u1", "u2"}
       THEN { [failed |-> FALSE, update |-> InformationUpdate(text, x, f, 90)] :
                 x \in {None, "other"} }
       ELSE { [failed |-> FALSE, update |-> InformationUpdate(x, text, f, 90)] :
                 x \in {None, "other"} }

NextScenario ==
    \/ \E c \in OneChat : now <= MaxOpsScenario /\ CreateSession(c)
    \/ \E c \in OneChat, t \in ScenarioTexts :
          /\ now <= MaxOpsScenario
          /\ SendMessage(c, t,
                         WellBehavedExtractor(get_or_create_chat(c).collected_info, t),
                         {TRUE}, OneReply, {TRUE}, BOOLEAN)
    \/ \E c \in OneChat : now <= MaxOpsScenario /\ GetCollectedInfo(c)
    \/ \E c \in OneChat : now <= MaxOpsScenario /\ CloseSession(c, BOOLEAN)

SpecScenario == Init /\ [][NextScenario]_vars

----------------------------------------------------------------------------
(* SpecUpdate: send_message applied to every assignment of the four fields *)
(* of an active chat, the Extractor returning every combination of a       *)
(* university payload, a course payload and a field id, among them the     *)
(* empty string and a field id the chat does not have; for MaxOpsUpdate    *)
(* operations.                                                             *)

UpdateResults ==
    { [failed |-> FALSE, update |-> InformationUpdate(u, c, f, 90)] :
         u \in {None, "", "MIT"}, c \in {None, "Physics"},
         f \in {None, "u1", "c1", "u2", "c2", "u3"} }

NextUpdate ==
    \/ \E c \in OneChat, t \in OneText :
          /\ now <= MaxOpsUpdate
          /\ SendMessage(c, t, UpdateResults, {TRUE}, OneReply, {TRUE}, {TRUE})
    \/ \E c \in OneChat : now <= MaxOpsUpdate /\ GetCollectedInfo(c)

SpecUpdate == InitFn /\ [][NextUpdate]_vars

----------------------------------------------------------------------------
(* SpecStages: two chats collected by an Extractor that either fails or    *)
(* returns a confident update of the field asked for, and a Responder      *)
(* whose reply asks for the information its system prompt names as needed  *)
(* next; for MaxOps operations.                                            *)

\* the reply generated from "Next information needed: {next_field}"
StageReply(f) ==
    CASE f = "u1" -> "What is your first university?"
      [] f = "c1" -> "Which course at your first university?"
      [] f = "u2" -> "What is your second university?"
      [] f = "c2" -> "Which course at your second university?"
      [] OTHER    -> "We will get back to you soon."

\* the Responder's result for a turn whose extraction result is m
StagedResponder(chat_id, m, user_message) ==
    LET ci == extraction_step(get_or_create_chat(chat_id).collected_info, m,
                              user_message).collected_info
    IN { [failed |-> FALSE, content |-> StageReply(next_field_key(ci))] }

NextStages ==
    \/ \E c \in ChatIds : now <= MaxOps /\ CreateSession(c)
    \/ \E c \in ChatIds, t \in UserTexts :
          \E m \in WellBehavedExtractor(get_or_create_chat(c).collected_info, t)
                       \cup {ModelFailure} :
             /\ now <= MaxOps
             /\ SendMessage(c, t, {m}, {TRUE}, StagedResponder(c, m, t), {TRUE}, {TRUE})
    \/ \E c \in ChatIds : now <= MaxOps /\ GetCompletionStatus(c)

SpecStages == Init /\ [][NextStages]_vars

----------------------------------------------------------------------------
(* SpecHistory: the transcripts of two chats, each entry appended by       *)
(* _add_to_history; the n-th entry appended to a chat has the text of the  *)
(* number n, the greeting being the first, then user and assistant turns.  *)

InitHistory ==
    /\ active = ChatIds
    /\ info = [c \in ChatIds |-> CollectedInfo]
    /\ created = [c \in ChatIds |-> 0]
    /\ history = [c \in ChatIds |-> <<>>]
    /\ index = <<>>
    /\ files = [c \in ChatIds |-> NoFile]
    /\ writes = [c \in ChatIds |-> 0]
    /\ seen = ChatIds
    /\ now = 1
    /\ last = NoOp
    /\ turns = NoTurns

\* the number of entries appended to a transcript so far
Appended(h) ==
    IF h = <<>> THEN 0
    ELSE CHOOSE n \in 1..(MaxAppends + 1) : ToString(n) = h[Len(h)].content

RoleOfTurn(n) == IF n % 2 = 1 THEN "assistant" ELSE "user"

AddToHistory(chat_id, role, content) ==
    /\ chat_id \in active
    /\ history' = [history EXCEPT ![chat_id] = add_to_history(@, role, content)]
    /\ last' = [op |-> "_add_to_history", chat_id |-> chat_id,
                before |-> history[chat_id], role |-> role, content |-> content]
    /\ Step(chat_id)
    /\ UNCHANGED <<active, info, created, index, files, writes>>

NextHistory ==
    \E c \in ChatIds :
       /\ now <= MaxAppends
       /\ AddToHistory(c, RoleOfTurn(Appended(history[c]) + 1),
                       ToString(Appended(history[c]) + 1))

SpecHistory == InitHistory /\ [][NextHistory]_vars

----------------------------------------------------------------------------
(* SpecPipeline: send_message taken one external call at a time, for the   *)
(* requests of RequestIds.  A turn is at "extract" before lines 233-257,   *)
(* at "lookup" before line 260, at "respond" before line 265, at "store"   *)
(* before lines 272-276, and "done" when the result is returned.           *)

\* the turn is running: started and not yet returned
InProgress(r) == turns[r].pc \notin {"idle", "done"}

\* the route is an async function that calls the manager without awaiting:
\* a handler runs to its end before the event loop starts another
handler_may_start_threaded(r) ==
    TRUE

handler_may_start(r) ==
    \A q \in RequestIds : ~InProgress(q)

\* the request reaches the chat; the user message enters the transcript
BeginTurn(r, chat_id, user_message) ==
    /\ ~InProgress(r)
    /\ handler_may_start(r)
    /\ LET chat == get_or_create_chat(chat_id)
       IN /\ active' = active \cup {chat_id}
          /\ info' = [info EXCEPT ![chat_id] = chat.collected_info]
          /\ created' = [created EXCEPT ![chat_id] = chat.created_at]
          /\ history' = [history EXCEPT ![chat_id] =
                           add_to_history(chat.chat_history, "user", user_message)]
          /\ turns' = [turns EXCEPT ![r] =
                         [pc |-> "extract", chat_id |-> chat_id,
                          user_message |-> user_message, msg |-> user_message,
                          before |-> chat.collected_info,
                          before_history |-> chat.chat_history]]
    /\ seen' = seen \cup {chat_id}
    /\ now' = now + 1
    /\ UNCHANGED <<index, files, writes, last>>

\* the Extractor has answered (or was skipped); the fields are updated
ExtractStep(r, MR) ==
    /\ turns[r].pc = "extract"
    /\ \E m \in MR :
         LET c == turns[r].chat_id
             st == extraction_step(info[c], m, turns[r].user_message)
         IN /\ info' = [info EXCEPT ![c] = st.collected_info]
            /\ turns' = [turns EXCEPT ![r] =
                           [pc |-> "lookup", chat_id |-> c,
                            user_message |-> turns[r].user_message,
                            msg |-> st.user_message,
                            before |-> turns[r].before,
                            before_history |-> turns[r].before_history,
                            extraction |-> st.extraction]]
    /\ now' = now + 1
    /\ UNCHANGED <<active, created, history, index, files, writes, seen, last>>

\* the lookup has answered; on a hit the cached reply enters the transcript
LookupStep(r, SearchOk) ==
    /\ turns[r].pc = "lookup"
    /\ LET c == turns[r].chat_id
           found == search_similar(index, c, turns[r].msg, 1)
       IN \E sok \in (IF found = {{}} THEN {TRUE} ELSE SearchOk) :
          \E similar \in (IF sok THEN found ELSE {{}}) :
             IF similar # {}
             THEN LET response == index[CHOOSE i \in similar : TRUE].assistant_response
                  IN /\ history' = [history EXCEPT ![c] =
                                      add_to_history(@, "assistant", response)]
                     /\ turns' = [turns EXCEPT ![r] =
                                    [pc |-> "store", chat_id |-> c,
                                     user_message |-> turns[r].user_message,
                                     msg |-> turns[r].msg,
                                     before |-> turns[r].before,
                                     before_history |-> turns[r].before_history,
                                     extraction |-> turns[r].extraction,
                                     response |-> response, is_cached |-> TRUE]]
             ELSE /\ history' = history
                  /\ turns' = [turns EXCEPT ![r] =
                                 [pc |-> "respond", chat_id |-> c,
                                  user_message |-> turns[r].user_message,
                                  msg |-> turns[r].msg,
                                  before |-> turns[r].before,
                                  before_history |-> turns[r].before_history,
                                  extraction |-> turns[r].extraction]]
    /\ now' = now + 1
    /\ UNCHANGED <<active, info, created, index, files, writes, seen, last>>

\* the Responder has answered; its reply enters the transcript
RespondStep(r, RR) ==
    /\ turns[r].pc = "respond"
    /\ \E rr \in RR :
         LET c == turns[r].chat_id
             response == get_response_message(rr)
         IN /\ history' = [history EXCEPT ![c] =
                             add_to_history(@, "assistant", response)]
            /\ turns' = [turns EXCEPT ![r] =
                           [pc |-> "store", chat_id |-> c,
                            user_message |-> turns[r].user_message,
                            msg |-> turns[r].msg,
                            before |-> turns[r].before,
                            before_history |-> turns[r].before_history,
                            extraction |-> turns[r].extraction,
                            response |-> response, is_cached |-> FALSE]]
    /\ now' = now + 1
    /\ UNCHANGED <<active, info, created, index, files, writes, seen, last>>

\* the exchange is inserted, the fields are saved if complete, the result
\* is returned
StoreStep(r, AddOk, SaveOk) ==
    /\ turns[r].pc = "store"
    /\ LET c == turns[r].chat_id
           saving == is_complete(info[c])
       IN \E aok \in AddOk :
          \E fok \in (IF saving THEN SaveOk ELSE {TRUE}) :
            /\ index' = IF aok
                        THEN add_conversation(index, c, turns[r].msg, turns[r].response)
                        ELSE index
            /\ files' = IF saving
                        THEN [files EXCEPT ![c] =
                                save_info(@, c, created[c], now, info[c], fok)]
                        ELSE files
            /\ writes' = IF saving /\ fok
                         THEN [writes EXCEPT ![c] = @ + 1]
                         ELSE writes
            /\ turns' = [turns EXCEPT ![r] =
                           [pc |-> "done", chat_id |-> c,
                            user_message |-> turns[r].user_message,
                            msg |-> turns[r].msg,
                            before |-> turns[r].before,
                            before_history |-> turns[r].before_history,
                            extraction |-> turns[r].extraction,
                            result |-> send_message_result(turns[r].response, info[c],
                                                           turns[r].is_cached)]]
    /\ now' = now + 1
    /\ UNCHANGED <<active, info, created, history, seen, last>>

PipelineModelResults ==
    { ModelFailure,
      [failed |-> FALSE, update |-> InformationUpdate("Stanford", None, "u1", 90)],
      [failed |-> FALSE, update |-> InformationUpdate(None, "Computer Science", "c1", 90)] }

NextPipeline ==
    \/ \E r \in RequestIds, c \in ChatIds, t \in OneText :
          now <= MaxSteps /\ BeginTurn(r, c, t)
    \/ \E r \in RequestIds : now <= MaxSteps /\ ExtractStep(r, PipelineModelResults)
    \/ \E r \in RequestIds : now <= MaxSteps /\ LookupStep(r, BOOLEAN)
    \/ \E r \in RequestIds : now <= MaxSteps /\ RespondStep(r, OneReply)
    \/ \E r \in RequestIds : now <= MaxSteps /\ StoreStep(r, {TRUE}, {TRUE})

SpecPipeline == Init /\ [][NextPipeline]_vars

----------------------------------------------------------------------------
(* Vocabulary of the properties *)

\* a field has no value: it is none or empty
Unset(v) == v \in {None, ""}

\* the first field of the declared order that has no value, or None
NextMissing(ci) ==
    LET missing == { i \in 1..Len(FieldOrder) : Unset(ci[FieldOrder[i]]) }
    IN IF missing = {} THEN None
       ELSE FieldOrder[CHOOSE i \in missing : \A j \in missing : i <= j]

AllSet(ci) == \A k \in FieldKeys : ~Unset(ci[k])

\* the name under which CollectedInfo declares each field
FieldLabel(k) ==
    CASE k = "u1" -> "First university name"
      [] k = "c1" -> "First university course"
      [] k = "u2" -> "Second university name"
      [] k = "c2" -> "Second university course"
      [] OTHER -> None

Sent == last.op = "send_message"

\* the fields a reference to the chat id would find: those of the active
\* chat, else those of its file, else none
Resolved(c) == get_or_create_chat(c).collected_info

\* the collection as it was when the last send_message searched it
IndexBefore == IF Sent /\ last.stored THEN SubSeq(index, 1, Len(index) - 1) ELSE index

----------------------------------------------------------------------------------------------------------------------------------------
(* C1: on an incomplete session, the fields change if and only if the      *)
(* extraction's confidence is above 0.5 and its field id is the session's  *)
(* next-missing field; otherwise all four fields are left unchanged.  The  *)
(* "if" half is read for extractions that carry a value for that field.    *)
(* Checked under SpecCollect; the code does not compare the field id with  *)
(* the next-missing field, so this is violated.                            *)

HasValueFor(e, f) ==
    IF f \in {"u1", "u2"} THEN ~Unset(e.new_university) ELSE ~Unset(e.new_course)

ConfidentAndTargeted(e, ci) ==
    /\ e.confidence > 50
    /\ e.field_to_update = NextMissing(ci)

C1_UpdateIffConfidentAndTargeted ==
    (Sent /\ ~AllSet(last.before)) =>
        /\ (last.collected_info # last.before)
              => ConfidentAndTargeted(last.extraction, last.before)
        /\ ( /\ ConfidentAndTargeted(last.extraction, last.before)
             /\ HasValueFor(last.extraction, last.extraction.field_to_update) )
              => (last.collected_info # last.before)

----------------
(* C2: the completion record of a session is written exactly once, by the  *)
(* send_message that sets the last field, and never again by a later       *)
(* send_message or by close_chat.  Checked under SpecCollect; the code     *)
(* saves on every send_message of a complete session and on close, so this *)
(* is violated.                                                            *)

C2_RecordWrittenOnce ==
    \A c \in ChatIds : writes[c] <= 1

----------------------------------------------------------------------------
(* C3: send_message on a session whose four fields are all set leaves      *)
(* every field value as it was, whatever the language model and the index  *)
(* do.  Checked under SpecCollect.                                         *)

C3_CompleteSessionFieldsFrozen ==
    (Sent /\ AllSet(last.before)) =>
        /\ last.collected_info = last.before
        /\ info[last.chat_id] = last.before

C3_Witness ==
    /\ Sent
    /\ AllSet(last.before)
    /\ last.chat_id \in active
    /\ info[last.chat_id] = last.before

----------------------------------------------------------------------------
(* C4: completion is monotonic across send_message, the read operations,   *)
(* close_chat, close_all_chats and a later resolution of the same chat id: *)
(* once complete, always complete, and no field that has a value ever      *)
(* becomes unset.  Checked under SpecCollect; violated by closing a chat   *)
(* that is not complete, whose fields are not saved.                       *)

----------------------------------------------------------------------------
(* C5: a cache lookup made for one chat, in send_message or in             *)
(* search_similar_conversations, never returns an exchange written under   *)
(* another chat id, even when the other chat holds an exchange with the    *)
(* same user text.  Checked under Spec.                                    *)

Searched == last.op \in {"send_message", "search_similar_conversations"}

C5_LookupStaysInChat ==
    Searched => \A i \in last.similar : index[i].chat_id = last.chat_id

\* a lookup for one chat found an exchange of its own while another chat
\* held an exchange with the very text that was looked up
C5_Witness ==
    /\ Searched
    /\ last.similar # {}
    /\ \E j \in 1..Len(IndexBefore) :
          /\ IndexBefore[j].chat_id # last.chat_id
          /\ IndexBefore[j].user_input = last.query

----------------------------------------------------------------------------
(* C6: when the same user text is sent in two consecutive send_message     *)
(* calls of one chat and the first exchange was written to the index, the  *)
(* second call is a cache hit: is_cached is true, the reply is the first   *)
(* call's reply and the Responder is not called, whatever the Extractor    *)
(* returns on the second call.  Read for a second call whose search did    *)
(* not fail.  Checked under Spec; the lookup uses the invalid-input marker *)
(* when the Extractor returns no payload, so this is violated.             *)

\* the transcript of the chat ends with two exchanges on the same user text
\* and the first of them is in the collection
RepeatedText(c) ==
    LET h == history[c]
        n == Len(h)
    IN /\ n >= 4
       /\ h[n - 3].role = "user" /\ h[n - 2].role = "assistant"
       /\ h[n - 1].role = "user" /\ h[n].role = "assistant"
       /\ h[n - 3].content = h[n - 1].content
       /\ \E i \in 1..Len(IndexBefore) :
             /\ IndexBefore[i].chat_id = c
             /\ IndexBefore[i].assistant_response = h[n - 2].content
             /\ IndexBefore[i].user_input \in {h[n - 3].content, InvalidInputMarker}

C6_RepeatIsCacheHit ==
    (Sent /\ last.search_ok /\ RepeatedText(last.chat_id)) =>
        /\ last.is_cached
        /\ last.responder_calls = 0
        /\ last.response = history[last.chat_id][Len(history[last.chat_id]) - 2].content

----------------------------------------------------------------------------
(* C7: on a cache hit send_message returns the assistant reply recorded in *)
(* the lowest-distance matching exchange of the same chat, unchanged, with *)
(* is_cached true and without calling the Responder; is_cached is true     *)
(* exactly when the reply came from the index.  Checked under Spec.        *)

\* the exchanges of the chat within the threshold of the text looked up
Candidates ==
    { i \in 1..Len(IndexBefore) :
        /\ IndexBefore[i].chat_id = last.chat_id
        /\ Distance(IndexBefore[i].user_input, last.query) <= DistanceThreshold }

Nearest ==
    { i \in Candidates :
        \A j \in Candidates : Distance(IndexBefore[i].user_input, last.query)
                              <= Distance(IndexBefore[j].user_input, last.query) }

----------------------------------------------------------------------------
(* C8: on a cache miss send_message calls the Responder exactly once and   *)
(* then inserts the (user, assistant) pair into the index under the chat's *)
(* own id, so that a later lookup in the chat with the same user text      *)
(* finds it.  Read for a turn whose insert did not fail.  Checked under    *)
(* Spec; the record holds the invalid-input marker instead of the user     *)
(* text when the Extractor returns no payload, so this is violated.        *)

C8_MissStoresUserTextAndReply ==
    (Sent /\ ~last.is_cached /\ last.stored) =>
        /\ last.responder_calls = 1
        /\ index[Len(index)] = [chat_id |-> last.chat_id,
                                user_input |-> last.user_message,
                                assistant_response |-> last.response]
        /\ Len(index) \in Matches(index, last.chat_id, last.user_message)

----------------------------------------------------------------------------
(* C9: when the invalid-input marker replaces the user message, the user's *)
(* own text is what is recorded, in the transcript entry of the turn and   *)
(* in the exchange written to the index, never the marker.  Checked under  *)
(* Spec; the exchange is written with the marker, so this is violated.     *)

C9_RawTextRecorded ==
    (Sent /\ last.query = InvalidInputMarker) =>
        LET h == history[last.chat_id]
        IN /\ h[Len(h) - 1] = [role |-> "user", content |-> last.user_message]
           /\ last.stored => index[Len(index)].user_input = last.user_message

----------------------------------------------------------------------------
(* C10: for every assignment of the four fields, the next-missing field is *)
(* the earliest field of the order u1, c1, u2, c2 whose value is none or   *)
(* empty, and it is none exactly when every field has a non-empty value;   *)
(* the field targeted by the Extractor and the next_field reported by      *)
(* get_completion_status follow the same rule.  Checked under SpecFn.      *)

C10_NextFieldIsEarliestUnset ==
    \A c \in OneChat :
        LET ci == info[c]
            expected == NextMissing(ci)
        IN /\ (last.op = "get_next_field" /\ last.chat_id = c) =>
                /\ last.next_field = FieldLabel(expected)
                /\ (last.next_field = None) <=> AllSet(ci)
                /\ last.is_complete <=> AllSet(ci)
           /\ (last.op = "_extract_information" /\ last.chat_id = c) =>
                /\ last.next_field_key = expected
                /\ (last.next_field_key = None) <=> AllSet(ci)
                /\ (last.extractor_calls = 1) <=> ~AllSet(ci)
           /\ (last.op = "get_completion_status" /\ last.chat_id = c) =>
                /\ last.status.next_field = FieldLabel(expected)
                /\ (last.status.next_field = None) <=> AllSet(ci)
                /\ last.status.is_complete <=> AllSet(ci)

\* the status of fields whose first gap is an empty string behind a value
\* and in front of another value
C10_Witness ==
    /\ last.op = "get_completion_status"
    /\ info[last.chat_id].u1 = "Stanford"
    /\ info[last.chat_id].c1 = ""
    /\ info[last.chat_id].u2 = "Stanford"
    /\ last.status.next_field = "First university course"

----------------------------------------------------------------------------
(* C11: once a chat is complete, every further send_message makes no       *)
(* Extractor call, yet answers from the cache lookup or, on a miss, from    *)
(* the Responder (called once), appends the user turn and the reply to the  *)
(* transcript and inserts the exchange of the user text and the reply in   *)
(* the index.  Checked under SpecCollect.                                  *)

\* the last two transcript entries are the user text and the reply of the
\* last send_message
TurnAppended ==
    LET h == history[last.chat_id]
    IN /\ Len(h) >= 2
       /\ h[Len(h) - 1] = [role |-> "user", content |-> last.user_message]
       /\ h[Len(h)] = [role |-> "assistant", content |-> last.response]

----------------------------------------------------------------------------
(* C12: when the Extractor's call fails, send_message still returns: the   *)
(* extraction counts as confidence 0, no field changes, and the turn goes  *)
(* on through the cache lookup or the Responder to a normal result (a      *)
(* reply, the fields, the completion flag), with the turn appended to the  *)
(* transcript.  Checked under Spec.                                        *)

C12_ExtractorFailureDegrades ==
    (Sent /\ last.extractor_failed) =>
        /\ last.extraction.confidence = 0
        /\ last.collected_info = last.before
        /\ info[last.chat_id] = last.before
        /\ last.is_cached \/ last.responder_calls = 1
        /\ last.response # None
        /\ last.is_complete = AllSet(last.before)
        /\ TurnAppended

\* a failed extraction on a chat that already holds a value
C12_Witness ==
    /\ Sent
    /\ last.extractor_failed
    /\ ~Unset(last.before.u1)
    /\ last.collected_info = last.before
    /\ last.response # None

----------------------------------------------------------------------------
(* C13: when the Responder's call fails, send_message still returns: the   *)
(* reply is the "having trouble responding" message, is_cached is false,   *)
(* the assistant turn is appended to the transcript and the result reports *)
(* the fields and the completion flag of the chat.  Checked under Spec.    *)

C13_ResponderFailureDegrades ==
    (Sent /\ last.responder_failed) =>
        /\ last.response = TroubleReply
        /\ ~last.is_cached
        /\ TurnAppended
        /\ last.collected_info = info[last.chat_id]
        /\ last.is_complete = AllSet(info[last.chat_id])

\* a failed Responder call in a turn that set a field
C13_Witness ==
    /\ Sent
    /\ last.responder_failed
    /\ last.collected_info # last.before
    /\ last.response = TroubleReply

----------------------------------------------------------------------------
(* C14: resolving a chat id that is not in the active map never fails:     *)
(* after close_chat or close_all_chats, or for an id never seen, the read  *)
(* operations and send_message return, working on the fields of the id's   *)
(* completion file if there is one and on four unset fields otherwise.     *)
(* Checked under SpecRestart.                                              *)

\* the fields on disk for a chat id, or the unset fields
PersistedFields(c) ==
    IF files[c].exists THEN files[c].collected_info
    ELSE [u1 |-> None, c1 |-> None, u2 |-> None, c2 |-> None]

ResolvingOps ==
    {"send_message", "get_collected_info", "get_completion_status",
     "get_chat_history", "search_similar_conversations"}

----------------------------------------------------------------------------
(* C15: close_all_chats is idempotent and safe on an empty manager: with   *)
(* no active chat it returns and changes nothing, and a second call right  *)
(* after a first leaves the state of the first (no active chat, the same   *)
(* files, none added).  Checked under SpecRestart.                         *)

C15_CloseAllIdempotent ==
    [][ last'.op = "close_all_chats" =>
          /\ active' = {}
          /\ (active = {} \/ last.op = "close_all_chats") =>
                /\ last'.closed = {}
                /\ last'.save_calls = 0
                /\ UNCHANGED <<active, info, created, history, index, files, writes>> ]_vars

\* close_all_chats on an empty manager whose earlier close wrote a file
C15_Witness ==
    /\ last.op = "close_all_chats"
    /\ last.closed = {}
    /\ active = {}
    /\ \E c \in ChatIds : writes[c] >= 2

----------------------------------------------------------------------------
(* C16: close_chat removes the chat from the active map; if the chat is    *)
(* not complete at that moment no completion file exists for its id        *)
(* afterwards, and if it is complete a completion file with its four field *)
(* values exists afterwards.  Checked under SpecCollect; violated when the *)
(* writes of the file fail.                                                *)

----------------------------------------------------------------------------
(* C17: whenever the completion file of a chat is written again (a later   *)
(* send_message on the complete chat, close_chat, close_all_chats) the     *)
(* file afterwards is identical in every component (chat id, created_at,   *)
(* timestamp, fields) to the file before.  Checked under SpecCollect;      *)
(* violated because every write stamps the file with the time of writing.  *)

C17_RewriteIsIdentical ==
    [][ \A c \in ChatIds :
          (files[c].exists /\ writes'[c] > writes[c]) => files'[c] = files[c] ]_vars

----------------------------------------------------------------------------
(* C18: a chat's transcript never holds more than 20 entries, and when an  *)
(* append would exceed 20 the oldest entries are dropped: the transcript   *)
(* is always the most recent (up to 20) entries appended, in the order     *)
(* they were appended.  Checked under SpecHistory.                         *)

C18_TranscriptIsSlidingWindow ==
    /\ \A c \in ChatIds :
          LET h == history[c]
              n == Appended(h)
              len == IF n < 20 THEN n ELSE 20
          IN /\ Len(h) <= 20
             /\ Len(h) = len
             /\ \A i \in 1..Len(h) :
                   h[i] = [role |-> RoleOfTurn(n - len + i),
                           content |-> ToString(n - len + i)]
    /\ last.op = "_add_to_history" =>
          LET h == history[last.chat_id]
              e == [role |-> last.role, content |-> last.content]
          IN IF Len(last.before) < 20
             THEN h = Append(last.before, e)
             ELSE h = Append(Tail(last.before), e)

\* a transcript that has overflowed more than once
C18_Witness ==
    \E c \in ChatIds :
       /\ Len(history[c]) = 20
       /\ Appended(history[c]) >= 23
       /\ history[c][1].content = ToString(Appended(history[c]) - 19)

----------------------------------------------------------------------------
(* C19: create_chat_session returns a chat id that no active chat has, and *)
(* right afterwards that chat is in the active map with its four fields    *)
(* unset, not complete, next field u1, and a transcript made of the fixed  *)
(* greeting as one assistant turn; no other active chat is changed.        *)
(* Checked under Spec.                                                     *)

C19_CreateSessionIsFresh ==
    [][ last'.op = "create_chat_session" =>
          LET c == last'.chat_id
          IN /\ c \notin active
             /\ active' = active \cup {c}
             /\ \A k \in FieldKeys : Unset(info'[c][k])
             /\ ~AllSet(info'[c])
             /\ NextMissing(info'[c]) = "u1"
             /\ history'[c] = << [role |-> "assistant", content |-> InitialMessage] >>
             /\ last'.message = InitialMessage
             /\ \A d \in active :
                   /\ info'[d] = info[d]
                   /\ history'[d] = history[d]
                   /\ created'[d] = created[d]
             /\ UNCHANGED <<index, files>> ]_vars

\* a chat created beside an active chat that holds a value and a turn
C19_Witness ==
    /\ last.op = "create_chat_session"
    /\ last.chat_id \in active
    /\ Len(history[last.chat_id]) = 1
    /\ \E d \in active \ {last.chat_id} :
          /\ ~Unset(info[d].u1)
          /\ Len(history[d]) = 2

----------------------------------------------------------------------------
(* C20: get_collected_info, get_completion_status, get_chat_history and    *)
(* search_similar_conversations change nothing observable: the fields and  *)
(* the transcript of every chat, the index and the files stay as they      *)
(* were, and a chat id enters the active map only if it has a completion   *)
(* file.  Checked under SpecRestart; violated because a read registers a   *)
(* chat for an id that exists nowhere.                                     *)

ReadOps ==
    {"get_collected_info", "get_completion_status", "get_chat_history",
     "search_similar_conversations"}

C20_ReadsChangeNothing ==
    [][ last'.op \in ReadOps =>
          LET c == last'.chat_id
          IN /\ UNCHANGED <<index, files, writes>>
             /\ \A d \in active :
                   /\ d \in active'
                   /\ info'[d] = info[d]
                   /\ history'[d] = history[d]
             /\ \A d \in ChatIds : Resolved(d)' = Resolved(d)
             /\ active' \subseteq active \cup {c}
             /\ (c \in active' /\ c \notin active) => files[c].exists ]_vars

----------------------------------------------------------------------------
(* C21: for every chat id at most one send_message is in progress at any   *)
(* time: two requests for the same chat never interleave their extraction, *)
(* field update, lookup and transcript and index writes, so no extraction  *)
(* is applied to fields another running message has changed.  Checked      *)
(* under SpecPipeline.                                                     *)

----------------------------------------------------------------------------
(* C22: within a send_message turn the fields and the transcript of the    *)
(* chat change only after every external call of the turn (Extractor,      *)
(* lookup, Responder, insert) has returned: while a call of the turn is    *)
(* still to return they are as they were before the turn.  Checked under   *)
(* SpecPipeline; violated because the user message enters the transcript   *)
(* before the Extractor is called and the fields are updated before the    *)
(* lookup.                                                                 *)

C22_NoMutationBeforeLastCall ==
    \A r \in RequestIds :
       turns[r].pc \in {"extract", "lookup", "respond", "store"} =>
          /\ info[turns[r].chat_id] = turns[r].before
          /\ history[turns[r].chat_id] = turns[r].before_history

----------------------------------------------------------------------------
(* C29: in a send_message turn on an incomplete chat the extraction and    *)
(* the field update it causes come before the lookup, so a turn answered   *)
(* from the cache may have advanced the fields, and the fields and the     *)
(* completion flag returned with the cached reply are the updated ones.    *)
(* Checked under SpecPipeline.                                             *)

C29_ExtractionBeforeLookup ==
    \A r \in RequestIds :
       LET c == turns[r].chat_id
       IN /\ (turns[r].pc \in {"lookup", "respond", "store"}
              /\ ~AllSet(turns[r].before)) =>
                 info[c] = apply_extraction(turns[r].before, turns[r].extraction)
          /\ (turns[r].pc = "done" /\ ~AllSet(turns[r].before)) =>
                /\ turns[r].result.collected_info =
                      apply_extraction(turns[r].before, turns[r].extraction)
                /\ turns[r].result.is_complete =
                      AllSet(apply_extraction(turns[r].before, turns[r].extraction))

\* a turn answered from the cache that set a field
C29_Witness ==
    \E r \in RequestIds :
       /\ turns[r].pc = "done"
       /\ turns[r].result.is_cached
       /\ turns[r].result.collected_info # turns[r].before
       /\ ~Unset(turns[r].result.collected_info.u1)

----------------------------------------------------------------------------
(* C23: whenever the send_message pipeline returns its result, the          *)
(* post-message route answers with a success status; it never turns a       *)
(* successful pipeline run into an error response.                          *)

C23_SuccessfulTurnReturnsSuccess ==
    Sent => last.http.status = HTTP_200_OK

----------------------------------------------------------------------------
(* C24: a failed write of the completion record does not fail the          *)
(* operation: the send_message that completes the chat returns its result  *)
(* with is_complete true and the fields of the chat intact, and close_chat *)
(* and close_all_chats on a complete chat return and close it.             *)

C24_WriteFailureDoesNotFailTurn ==
    /\ (Sent /\ last.save_calls = 1 /\ ~last.save_ok) =>
          /\ ~last.raised
          /\ last.is_complete
          /\ AllSet(last.collected_info)
          /\ last.chat_id \in active
          /\ info[last.chat_id] = last.collected_info
          /\ last.response # None
    /\ (last.op = "close_chat" /\ last.save_calls = 1 /\ ~last.save_ok) =>
          /\ ~last.raised
          /\ AllSet(last.before)
          /\ last.chat_id \notin active
    /\ (last.op = "close_all_chats" /\ last.failed # {}) =>
          /\ ~last.raised
          /\ active = {}

\* the send_message that completes the chat, its record not written
C24_Witness ==
    /\ Sent /\ ~AllSet(last.before) /\ last.is_complete
    /\ last.save_calls = 1 /\ ~last.save_ok
    /\ ~files[last.chat_id].exists

----------------------------------------------------------------------------
(* C25: the creation time of a chat id is fixed when its session is         *)
(* created and is the same ever after, also when the session is closed,    *)
(* complete or not, and the id is resolved again.  As stated: an id that   *)
(* has had a session never comes back into the active map with the time   *)
(* of that step as its creation time.                                      *)

C25_CreatedAtFixedForever ==
    [][\A c \in seen : (c \notin active /\ c \in active') => created'[c] < now]_vars

(* C25, as the code has it: the creation time is fixed while the chat      *)
(* stays active, it is the creation time of every record written for the   *)
(* chat, and an id whose record exists resolves to the recorded creation   *)
(* time; an id without a record resolves to a session created at the time  *)
(* of the resolution.                                                      *)

C25_CreatedAtFixedWhileActiveOrSaved ==
    [][\A c \in ChatIds :
          /\ (c \in active /\ c \in active') => created'[c] = created[c]
          /\ (c \notin active /\ c \in active' /\ files[c].exists) =>
                 created'[c] = files[c].created_at
          /\ (c \notin active /\ c \in active' /\ ~files[c].exists) =>
                 created'[c] = now
          /\ (files[c].exists /\ files'[c].exists) =>
                 files'[c].created_at = files[c].created_at
          /\ (files'[c] # files[c]) =>
                 files'[c].created_at = get_or_create_chat(c).created_at
          /\ (c \in active' /\ files'[c].exists) =>
                 created'[c] = files'[c].created_at]_vars

\* a chat whose record was written, closed and resolved again from the record
C25_Witness ==
    /\ last.op = "get_collected_info"
    /\ LET c == last.chat_id
       IN /\ c \in active
          /\ writes[c] >= 2
          /\ files[c].exists
          /\ created[c] = files[c].created_at
          /\ files[c].timestamp > created[c]
          /\ history[c] = <<>>

----------------------------------------------------------------------------
(* C26: a send_message addressed to chat A leaves the fields and the       *)
(* transcript of every other chat B unchanged, and creating or closing A   *)
(* leaves B's entry in the active map and B's completion record unchanged. *)

C26_OtherChatsUntouched ==
    [][ last'.op \in {"send_message", "create_chat_session", "close_chat"} =>
          \A b \in ChatIds \ {last'.chat_id} :
             /\ info'[b] = info[b]
             /\ history'[b] = history[b]
             /\ created'[b] = created[b]
             /\ (b \in active') = (b \in active)
             /\ files'[b] = files[b]
             /\ writes'[b] = writes[b] ]_vars

\* chat A was closed while another chat, complete and with its record on
\* disk, was active
C26_Witness ==
    /\ last.op = "close_chat" /\ last.was_active
    /\ \E b \in ChatIds \ {last.chat_id} :
          /\ b \in active
          /\ AllSet(info[b])
          /\ files[b].exists

----------------------------------------------------------------------------
(* C27: with an Extractor that answers every message with confidence above *)
(* 0.5, the next missing field as field id and a payload of that field's   *)
(* type, each send_message on a session whose first k-1 fields are set     *)
(* fills exactly the k-th field of u1, c1, u2, c2 with the message:        *)
(* afterwards exactly the first k fields are set, is_complete is true for  *)
(* k = 4 only, and the record written at k = 4 holds the four values.      *)
(* Checked under SpecScenario.                                             *)

\* the number of fields that have a value
CountSet(ci) == Cardinality({ k \in FieldKeys : ~Unset(ci[k]) })

\* exactly the first n fields of the declared order have a value
FirstSet(ci, n) ==
    \A i \in 1..Len(FieldOrder) : (i <= n) <=> ~Unset(ci[FieldOrder[i]])

C27_ScenarioFillsFieldsInOrder ==
    /\ \A c \in ChatIds : FirstSet(info[c], CountSet(info[c]))
    /\ (Sent /\ ~AllSet(last.before)) =>
          LET c == last.chat_id
              k == CountSet(last.before) + 1
          IN /\ FirstSet(last.before, k - 1)
             /\ info[c] = [last.before EXCEPT ![FieldOrder[k]] = last.user_message]
             /\ FirstSet(info[c], k)
             /\ last.collected_info = info[c]
             /\ last.is_complete = (k = Len(FieldOrder))
             /\ last.save_calls = (IF k = Len(FieldOrder) THEN 1 ELSE 0)
             /\ (k = Len(FieldOrder) /\ last.save_ok) =>
                   /\ files[c].exists
                   /\ files[c].collected_info = info[c]
                   /\ AllSet(files[c].collected_info)
             /\ (k < Len(FieldOrder)) => files[c] = NoFile

\* the fourth message has completed the chat and its record is on disk
C27_Witness ==
    /\ Sent /\ CountSet(last.before) = 3 /\ last.is_complete /\ last.save_ok
    /\ last.extraction.new_university = "other"
    /\ files[last.chat_id].exists
    /\ files[last.chat_id].collected_info.u1 = "Stanford"
    /\ files[last.chat_id].collected_info.c2 = last.user_message

----------------------------------------------------------------------------
(* C30: save and reload: if a session completes with its record written,   *)
(* is closed, and its id is referenced again, the session that comes back  *)
(* has the four field values and the creation time it had before the       *)
(* close, is complete, and has an empty transcript.  Checked under         *)
(* SpecScenario.                                                           *)

----------------------------------------------------------------------------
(* C28: during send_message on an incomplete session the user message is   *)
(* replaced by the invalid-input marker, for the lookup and the Responder, *)
(* exactly when the extraction carries no payload usable for the next      *)
(* missing field; and a payload of the wrong type for that field, or one   *)
(* of the right type with confidence at most 0.5, does not fill it.        *)
(* Checked under SpecCollect; the code violates it.                        *)

C28_MarkerIffNoUsablePayload ==
    (Sent /\ ~AllSet(last.before)) =>
        LET target == NextMissing(last.before)
            e == last.extraction
        IN /\ (last.query = InvalidInputMarker) <=> ~HasValueFor(e, target)
           /\ (~HasValueFor(e, target) \/ e.confidence <= ConfidenceThreshold) =>
                 last.collected_info[target] = last.before[target]

----------------------------------------------------------------------------
(* C31: get_completion_status is consistent with itself for every          *)
(* assignment of the four fields: collected_count is the number of fields  *)
(* with a non-empty value, it lies between 0 and total_required = 4,       *)
(* is_complete is true exactly when collected_count is 4, and next_field   *)
(* is none exactly when is_complete is true.  Checked under SpecFn.        *)

C31_CompletionStatusConsistent ==
    last.op = "get_completion_status" =>
        LET st == last.status
            ci == info[last.chat_id]
        IN /\ st.collected_count = CountSet(ci)
           /\ st.total_required = 4
           /\ 0 <= st.collected_count /\ st.collected_count <= st.total_required
           /\ st.is_complete <=> (st.collected_count = st.total_required)
           /\ (st.next_field = None) <=> st.is_complete

\* the status of fields of which two have a value and one is the empty string
C31_Witness ==
    /\ last.op = "get_completion_status"
    /\ \E k \in FieldKeys : info[last.chat_id][k] = ""
    /\ last.status.collected_count = 2
    /\ ~last.status.is_complete
    /\ last.status.next_field # None

----------------------------------------------------------------------------
(* C32: in every state of a chat the fields that have a value are a prefix *)
(* of the order u1, c1, u2, c2: no field is set while an earlier one is    *)
(* unset, whatever field id the Extractor returns.  Checked under          *)
(* SpecCollect; the code violates it.                                      *)

C32_SetFieldsArePrefix ==
    \A c \in ChatIds : FirstSet(info[c], CountSet(info[c]))

----------------------------------------------------------------------------
(* C33: once a field has a value, no later send_message on the chat        *)
(* replaces it by a different value, also when a confident extraction      *)
(* names that field while the chat is incomplete.  Checked under           *)
(* SpecCollect; the code violates it.                                      *)

C33_SetFieldNeverOverwritten ==
    Sent => \A k \in FieldKeys :
               ~Unset(last.before[k]) => last.collected_info[k] = last.before[k]

----------------------------------------------------------------------------
(* C34: one send_message changes at most one field; the value written is   *)
(* non-empty and of the kind of the field: u1 and u2 only ever receive the *)
(* extraction's university payload, c1 and c2 only its course payload; an  *)
(* extraction whose field id is none of u1, c1, u2, c2 changes nothing.    *)
(* Checked under SpecUpdate.                                               *)

C34_OneFieldOfMatchingKind ==
    Sent =>
        LET e == last.extraction
            b == last.before
            a == last.collected_info
            changed == { k \in FieldKeys : a[k] # b[k] }
        IN /\ info[last.chat_id] = a
           /\ Cardinality(changed) <= 1
           /\ \A k \in changed :
                 /\ k = e.field_to_update
                 /\ ~Unset(a[k])
                 /\ k \in {"u1", "u2"} => a[k] = e.new_university
                 /\ k \in {"c1", "c2"} => a[k] = e.new_course
           /\ e.field_to_update \notin FieldKeys => changed = {}

\* u2 received the university payload of an extraction that carried a
\* course payload as well
C34_Witness ==
    /\ Sent
    /\ last.extraction.field_to_update = "u2"
    /\ last.extraction.new_university = "MIT"
    /\ last.extraction.new_course = "Physics"
    /\ last.before.u2 # "MIT"
    /\ last.collected_info = [last.before EXCEPT !.u2 = "MIT"]

----------------------------------------------------------------------------
(* C35: every completion record on disk has all four fields non-empty: no  *)
(* sequence of send_message, close_chat, close_all_chats and reloads       *)
(* writes a record for a chat whose fields are only partly collected.      *)
(* Checked under SpecCollect.                                              *)

C35_RecordsAreComplete ==
    \A c \in ChatIds :
        /\ files[c].exists =>
              /\ AllSet(files[c].collected_info)
              /\ files[c].chat_id = c
        /\ (writes[c] = 0) => ~files[c].exists
        /\ (c \in active /\ ~AllSet(info[c])) => ~files[c].exists

\* a complete chat has been closed and its record, written by close_chat,
\* holds the four values
C35_Witness ==
    /\ last.op = "close_chat" /\ last.was_active
    /\ last.save_calls = 1 /\ last.save_ok
    /\ files[last.chat_id].exists
    /\ files[last.chat_id].collected_info = last.before
    /\ AllSet(last.before)
    /\ files[last.chat_id].timestamp = now - 1

----------------------------------------------------------------------------
(* C36: every send_message that returns appends exactly two transcript     *)
(* entries, the user turn and then the reply, and writes exactly one       *)
(* exchange of the chat to the index, on a cache hit as on a miss.  As     *)
(* stated, for every send_message, whatever the outcome of the insert.     *)

C36_TurnWritesOneExchange ==
    [][ last'.op = "send_message" =>
          LET c == last'.chat_id
              h == get_or_create_chat(c).chat_history
          IN /\ history'[c] = h \o << [role |-> "user", content |-> last'.user_message],
                                       [role |-> "assistant", content |-> last'.response] >>
             /\ Len(get_chat_history(index', c)) = Len(get_chat_history(index, c)) + 1
      ]_vars

(* C36, as the code has it: every send_message appends the user turn and   *)
(* the reply to the transcript and makes one insert, on a cache hit as on  *)
(* a miss; the insert adds one exchange of the chat, holding the reply, at *)
(* the end of the collection, unless it fails, and then the turn returns   *)
(* all the same with the collection unchanged.  Nothing else changes the   *)
(* collection, and get_chat_history returns the exchanges of the chat in   *)
(* the order of their insertion, or nothing when the fetch fails.          *)

C36_TurnWritesOneExchangeUnlessInsertFails ==
    [][ /\ last'.op = "send_message" =>
             LET c == last'.chat_id
                 h == get_or_create_chat(c).chat_history
             IN /\ history'[c] = h \o << [role |-> "user", content |-> last'.user_message],
                                          [role |-> "assistant", content |-> last'.response] >>
                /\ last'.stored =>
                      /\ Len(index') = Len(index) + 1
                      /\ SubSeq(index', 1, Len(index)) = index
                      /\ index'[Len(index')].chat_id = c
                      /\ index'[Len(index')].assistant_response = last'.response
                      /\ get_chat_history(index', c) =
                            Append(get_chat_history(index, c), index'[Len(index')])
                /\ ~last'.stored => index' = index
                /\ last'.response # None
        /\ last'.op # "send_message" => index' = index
        /\ last'.op = "get_chat_history" =>
             \/ last'.conversations = get_chat_history(index, last'.chat_id)
             \/ last'.conversations = <<>>
      ]_vars

\* a cache hit has written the second exchange of the chat, a duplicate of
\* the reply it replayed
C36_Witness ==
    /\ Sent /\ last.is_cached /\ last.stored
    /\ TurnAppended
    /\ LET hs == get_chat_history(index, last.chat_id)
       IN /\ Len(hs) = 2
          /\ hs[1].assistant_response = last.response
          /\ hs[2].assistant_response = last.response

----------------------------------------------------------------------------
(* C37: when the Extractor's call fails on an incomplete chat the turn is   *)
(* handled like an invalid input: the failure result carries no payload,   *)
(* so the lookup and the Responder get the invalid-input marker in place   *)
(* of the user message, whatever the user wrote.  Checked under Spec.      *)

C37_ExtractorFailureIsInvalidInput ==
    (Sent /\ last.extractor_failed) =>
        /\ ~AllSet(last.before)
        /\ last.extraction.new_university = None
        /\ last.extraction.new_course = None
        /\ last.extraction.field_to_update = None
        /\ last.query = InvalidInputMarker
        /\ last.query # last.user_message
        /\ last.is_cached =>
              \E i \in last.similar :
                 /\ IndexBefore[i].user_input = InvalidInputMarker
                 /\ IndexBefore[i].assistant_response = last.response
        /\ ~last.is_cached => last.responder_calls = 1

\* a failed extraction answered from the exchange an earlier failed
\* extraction stored, the user having written something else
C37_Witness ==
    /\ Sent /\ last.extractor_failed
    /\ last.is_cached
    /\ last.user_message = "Stanford University"
    /\ last.query = InvalidInputMarker
    /\ \E i \in last.similar : IndexBefore[i].user_input = InvalidInputMarker

----------------------------------------------------------------------------
(* C38: a reply degraded by a failure of the Responder is never replayed   *)
(* from the cache: no send_message returns is_cached true with the         *)
(* "having trouble responding" text as its reply.  Checked under Spec; the *)
(* code violates it.                                                       *)

C38_DegradedReplyNeverReplayed ==
    (Sent /\ last.is_cached) => last.response # TroubleReply

----------------------------------------------------------------------------
(* C39: whenever send_message returns is_cached true, the replayed reply   *)
(* was generated while the chat had the next missing field it has at the   *)
(* replay; two invalid inputs at different stages of the collection, both  *)
(* looked up under the invalid-input marker, do not make the reply of the  *)
(* earlier stage come back at the later one.  Checked under SpecStages,    *)
(* where a generated reply names the field it asked for; the code violates *)
(* it.                                                                     *)

C39_ReplayMatchesStage ==
    (Sent /\ last.is_cached) =>
        last.response = StageReply(NextMissing(last.collected_info))

====
